---- MODULE Spec2Model ----
(***************************************************************************)
(* WorkFlowX: the QR attendance check-in flow of routes.py, the            *)
(* administrative marking path of repository.py and the attendance table   *)
(* of models.py, as a state machine of request threads over one database.  *)
(*                                                                         *)
(* Requests are handled by concurrent threads, each with its own ORM       *)
(* session.  A handler is cut into steps at its database statements and    *)
(* at its reads of the clock; one step is atomic, the steps of different   *)
(* requests interleave freely.  A response is the last thing a handler     *)
(* does; the variable resp holds the most recent one.                       *)
(***************************************************************************)
EXTENDS Integers, FiniteSets, Sequences, Bags, TLC

VARIABLES clock, qr_tokens, attendance, identity, dialect, workers, reqs, resp,
          session, users, employees, departments, leave_requests

\* the tables of the database besides attendance
tables == <<users, employees, departments, leave_requests>>

vars == <<clock, qr_tokens, attendance, identity, dialect, workers, reqs, resp,
          session, tables>>

----------------------------------------------------------------------------
(* Bounds of the model *)

\* calendar days the clock runs through
MaxDay == 2
\* requests in flight at the same time
MaxReq == 2
\* distinct values secrets.token_urlsafe is seen to return
MaxToken == 2
\* non-empty texts the notes field of the marking form carries
MaxNote == 0
\* attendance rows ever inserted (caps the primary-key counter)
MaxId == 3
\* rows the repository calls add to a table
MaxRows == 1

----------------------------------------------------------------------------
(* Time *)

Days == 1..MaxDay

\* datetime.strptime('09:20', '%H:%M').time(), in seconds of the day
LateCutoff == 9 * 3600 + 20 * 60

\* the instants of a day at which the clock is read: 09:19:59, 09:20:00
TimesOfDay == {LateCutoff - 1, LateCutoff}

\* a datetime; NoTime stands for None
NoTime == [day |-> 0, secs |-> 0]
DateTimes == [day : Days, secs : TimesOfDay]

\* date.isoformat(): the string of a date; "none" is a missing form field
IsoFormat(d) == <<"iso", d>>
NoStr == <<"none", 0>>
BadStr == <<"bad", 0>>
DateStrings == {IsoFormat(d) : d \in Days} \cup {BadStr, NoStr}

\* datetime.strptime(s, '%Y-%m-%d').date(); 0 stands for ValueError / None
Strptime(s) == IF s[1] = "iso" THEN s[2] ELSE 0

\* the order of two ISO date strings (str.__lt__ on YYYY-MM-DD)
IsoLess(a, b) == a[1] = "iso" /\ b[1] = "iso" /\ a[2] < b[2]

\* strftime("%I:%M %p"): the minute of the day, the date and seconds dropped
Strftime(t) == t.secs \div 60

----------------------------------------------------------------------------
(* Users, employees, sessions *)

\* the users table: an administrator, an employee whose username is the
\* e-mail of an employee profile, an employee-role user without a profile
\* generate_password_hash(password), and check_password_hash(hash, password)
generate_password_hash(password) == <<"hash", password>>
check_password_hash(hash, password) == hash = <<"hash", password>>

UserTable ==
  { [user_id |-> 1, username |-> <<"admin">>, role |-> "admin",
     password_hash |-> generate_password_hash("admin123")],
    [user_id |-> 2, username |-> <<"e1", "@workflowx.com">>, role |-> "employee",
     password_hash |-> generate_password_hash("WorkFlow@2025")],
    [user_id |-> 3, username |-> <<"e2">>, role |-> "employee",
     password_hash |-> generate_password_hash("WorkFlow@2025")] }

\* the departments table: one with an employee, one without
DepartmentTable ==
  { [department_id |-> 1, name |-> "Technology & Infrastructure"],
    [department_id |-> 2, name |-> "Sales"] }

\* the employees table
EmployeeTable ==
  { [employee_id |-> 1, email |-> <<"e1", "@workflowx.com">>,
     department_id |-> 1, status |-> "active"] }

Employees == {e.employee_id : e \in EmployeeTable}

\* a session cookie as login issues it; user_id 0 is a session without user_id
NoSession == [user_id |-> 0, role |-> "none"]

\* the session of one browser, with the keys the handlers write: an absent
\* key is 0, <<>>, "none", NoToken or NoStr
NoCookie ==
  [user_id |-> 0, username |-> <<>>, role |-> "none",
   pending_checkin_token |-> 0, pending_checkin_date |-> <<"none", 0>>]
Sessions == {[user_id |-> u.user_id, role |-> u.role] : u \in UserTable} \cup {NoSession}

\* None for a user
NoUser == [user_id |-> 0, username |-> <<>>, role |-> "none",
           password_hash |-> <<"hash", "">>]

\* mutant of LoggedIn: the decorator lets every session through
MutLoggedIn(sess) == TRUE

\* 'user_id' in session
LoggedIn(sess) == sess.user_id # 0

\* mutant of SessionRole: every session passes for an administrator's
MutSessionRole(sess) == "admin"

\* session.get('role')
SessionRole(sess) == sess.role

\* repo.get_user_by_id: User.query.get(user_id)
get_user_by_id(uid) ==
  IF \E u \in users : u.user_id = uid
  THEN CHOOSE u \in users : u.user_id = uid
  ELSE NoUser

\* Employee.query.filter_by(email=user.username).first(), then the lookup by
\* username + '@company.com' / '@workflowx.com'; 0 when there is no profile
FindEmployee(uid) ==
  LET name == get_user_by_id(uid).username
      direct == {e \in employees : e.email = name}
      suffixed == {e \in employees :
                     \/ e.email = name \o <<"@company.com">>
                     \/ e.email = name \o <<"@workflowx.com">>}
  IN IF direct # {} THEN (CHOOSE e \in direct : TRUE).employee_id
     ELSE IF suffixed # {} THEN (CHOOSE e \in suffixed : TRUE).employee_id
     ELSE 0

----------------------------------------------------------------------------
(* The attendance table *)

Statuses == {"Present", "Absent", "Late"}

\* notes: the text of the marking form, or the summary check-out writes
FormNotes(txt) == [kind |-> "form", txt |-> txt, t_in |-> 0, t_out |-> 0, hours |-> 0]
\* the texts a notes field of the form carries: 0 is the empty string
NoteTexts == 0..MaxNote

\* a row; NoRow stands for None
NoRow == [attendance_id |-> 0, employee_id |-> 0, date |-> 0, status |-> "none",
          check_in_time |-> NoTime, check_out_time |-> NoTime, notes |-> FormNotes(0)]

\* Attendance.query.filter_by(employee_id=e, date=d).first()
QueryAttendance(table, e, d) ==
  LET hit == {row \in table : row.employee_id = e /\ row.date = d}
  IN IF hit = {} THEN NoRow ELSE CHOOSE row \in hit : TRUE

\* the largest primary key stored
MaxRowId(table) ==
  IF table = {} THEN 0
  ELSE CHOOSE m \in {row.attendance_id : row \in table} :
         \A row \in table : row.attendance_id <= m

\* the primary key an INSERT gets: SQLite's INTEGER PRIMARY KEY takes
\* max(rowid) + 1, SQL Server's IDENTITY never hands a value out twice
NewRowId(table, seq, dia) ==
  IF dia = "sqlite" THEN MaxRowId(table) + 1 ELSE seq + 1

\* the object a query loads, cut down to the attributes the handler reads
\* afterwards: the primary key always (the ORM's DELETE and UPDATE go by
\* it), and the attributes named in keep
Loaded(row, keep) ==
  [f \in DOMAIN NoRow |->
     IF f = "attendance_id" \/ f \in keep THEN row[f] ELSE NoRow[f]]

\* mutant of UniqueOk: the table has no unique constraint
MutUniqueOk(table, e, d) == TRUE

\* UniqueConstraint('employee_id', 'date'): may this row be inserted?
UniqueOk(table, e, d) == \A row \in table : ~(row.employee_id = e /\ row.date = d)

\* DELETE FROM attendance WHERE attendance_id = id (no row matched: a warning)
DeleteById(table, id) == {row \in table : row.attendance_id # id}

\* UPDATE attendance SET ... WHERE attendance_id = id: does a row match?
RowExists(table, id) == \E row \in table : row.attendance_id = id

----------------------------------------------------------------------------
(* Requests in flight and responses *)

Tokens == 1..MaxToken
\* a missing or empty token form field
NoToken == 0

\* a request thread: the handler it runs (op), where it stands (pc) and its
\* locals.  browser tells that the request carries the session of the
\* browser (the variable session) and not that of some other client.
\* overlap, raced, seen and wrote record what the request lived through:
\* overlap, that another check-in for the same employee and date reported
\* success while this one was in flight; raced, that both had read "no
\* existing record" before that other one wrote; seen, the token the
\* registry held for the date when get_or_create_qr_token was called;
\* wrote, that a statement of the request has changed the attendance table.
NewReq(op, sess) ==
  [op |-> op, pc |-> "begin", sess |-> sess, emp |-> 0, date |-> 0,
   token |-> NoToken, datestr |-> NoStr, existing |-> NoRow, now |-> NoTime,
   status |-> "none", notes |-> FormNotes(0), todo |-> {}, expired |-> {},
   seen |-> NoToken, overlap |-> FALSE, raced |-> FALSE,
   wrote |-> FALSE, browser |-> FALSE, username |-> <<>>, password |-> "",
   key |-> 0, flag |-> FALSE]

InFlight == BagToSet(reqs)

\* the response a handler sends: what it did (outcome) and for which
\* employee, date and token; found tells that the handler had loaded a
\* record; seen, overlap, raced and wrote are the request's, as are the
\* session it came with and the credentials of a login form; key, flag and
\* status are the arguments of a repository call: a primary key,
\* soft_delete, and a status.  resp holds the
\* response sent by the last step, NoResponse when the last step sent none.
Response(op, outcome, r) ==
  [op |-> op, outcome |-> outcome, emp |-> r.emp, date |-> r.date,
   token |-> r.token, datestr |-> r.datestr, found |-> r.existing # NoRow,
   seen |-> r.seen, overlap |-> r.overlap, raced |-> r.raced,
   wrote |-> r.wrote, sess |-> r.sess, username |-> r.username,
   password |-> r.password, key |-> r.key, flag |-> r.flag, status |-> r.status]

NoResponse ==
  [op |-> "none", outcome |-> "none", emp |-> 0, date |-> 0,
   token |-> NoToken, datestr |-> NoStr, found |-> FALSE, seen |-> NoToken,
   overlap |-> FALSE, raced |-> FALSE, wrote |-> FALSE, sess |-> NoSession,
   username |-> <<>>, password |-> "", key |-> 0, flag |-> FALSE,
   status |-> "none"]

\* a request turned away before the handler looked at its data
Blank(op) == NewReq(op, NoSession)

\* the handler returns at once: it never held more than its first step
Return(op, outcome, r) ==
  /\ resp' = Response(op, outcome, r)
  /\ UNCHANGED reqs

\* the handler goes on to its next step as request r
Enter(r) ==
  /\ BagCardinality(reqs) < workers
  /\ reqs' = reqs (+) SetToBag({r})
  /\ resp' = NoResponse

\* request r moves on as r2
Step(r, r2) ==
  /\ reqs' = (reqs (-) SetToBag({r})) (+) SetToBag({r2})
  /\ resp' = NoResponse

\* request r ends with a response
Finish(r, outcome) ==
  /\ reqs' = reqs (-) SetToBag({r})
  /\ resp' = Response(r.op, outcome, r)

\* request r ends with a response that tells what its last step found (r2)
FinishAs(r, r2, outcome) ==
  /\ reqs' = reqs (-) SetToBag({r})
  /\ resp' = Response(r.op, outcome, r2)

\* the other check-ins in flight for the same employee and date learn that
\* request r reported success
Witnessed(r, o) ==
  IF o.op = "submit" /\ o.emp = r.emp /\ o.date = r.date
  THEN [o EXCEPT !.overlap = TRUE,
                 !.raced = @ \/ (r.existing = NoRow /\ o.existing = NoRow)]
  ELSE o

----------------------------------------------------------------------------
(* The clock *)

\* time passes within the day: the next instant at which the clock is read
Tick ==
  /\ \E s \in TimesOfDay : s > clock.secs
  /\ clock' = [clock EXCEPT !.secs =
                 CHOOSE s \in TimesOfDay :
                   s > clock.secs /\ \A u \in TimesOfDay : u > clock.secs => s <= u]
  /\ resp' = NoResponse
  /\ UNCHANGED <<qr_tokens, attendance, identity, dialect, workers, session, tables, reqs>>

\* the day rolls over
Midnight ==
  /\ clock.day < MaxDay
  /\ clock' = [day |-> clock.day + 1,
               secs |-> CHOOSE s \in TimesOfDay : \A u \in TimesOfDay : s <= u]
  /\ resp' = NoResponse
  /\ UNCHANGED <<qr_tokens, attendance, identity, dialect, workers, session, tables, reqs>>

----------------------------------------------------------------------------
(* submit_qr_checkin: POST /checkin/submit *)

\* mutant of AlreadyCheckedIn: the test looks at check_out_time
MutAlreadyCheckedIn(existing) == existing # NoRow /\ existing.check_out_time # NoTime

\* existing and existing.check_in_time
AlreadyCheckedIn(existing) == existing # NoRow /\ existing.check_in_time # NoTime

\* mutants of CheckinStatus: the cutoff itself still Present; Absent when
\* late; Present whatever the time
MutCheckinStatus(now) == IF now.secs <= LateCutoff THEN "Present" ELSE "Late"
MutCheckinStatusAbsent(now) == IF now.secs < LateCutoff THEN "Present" ELSE "Absent"
MutCheckinStatusPresent(now) == "Present"

\* status from the time of day of the check-in
CheckinStatus(now) == IF now.secs < LateCutoff THEN "Present" ELSE "Late"

\* the token the form carries is not compared with qr_tokens here
SubmitFrom(browser, sess, token, datestr) ==
  LET r0 == [NewReq("submit", sess) EXCEPT !.token = token, !.datestr = datestr,
                                            !.browser = browser]
      emp == FindEmployee(sess.user_id)
      checkin_date == Strptime(datestr)
      existing == QueryAttendance(attendance, emp, checkin_date)
      r1 == [r0 EXCEPT !.emp = emp, !.date = checkin_date,
                       !.existing = Loaded(existing, {"check_in_time"})]
  IN /\ IF ~LoggedIn(sess) THEN Return("submit", "LoginRequired", Blank("submit"))
        ELSE IF SessionRole(sess) # "employee" THEN Return("submit", "AccessDenied", Blank("submit"))
        ELSE IF token = NoToken \/ datestr = NoStr THEN Return("submit", "InvalidData", Blank("submit"))
        ELSE IF datestr # IsoFormat(clock.day) THEN Return("submit", "TokenExpired", Blank("submit"))
        ELSE IF emp = 0 THEN Return("submit", "EmployeeNotFound", Blank("submit"))
        ELSE IF AlreadyCheckedIn(existing) THEN Return("submit", "AlreadyCheckedIn", r1)
        ELSE Enter([r1 EXCEPT !.pc = IF existing # NoRow THEN "delete" ELSE "now"])
     /\ UNCHANGED <<clock, qr_tokens, attendance, identity, dialect, workers, session, tables>>

\* the request of a client other than the browser
SubmitBegin(sess, token, datestr) == SubmitFrom(FALSE, sess, token, datestr)

\* db.session.delete(existing); db.session.commit()
SubmitDelete(r) ==
  /\ r \in InFlight /\ r.op = "submit" /\ r.pc = "delete"
  /\ attendance' = DeleteById(attendance, r.existing.attendance_id)
  /\ Step(r, [r EXCEPT !.pc = "now",
                       !.wrote = RowExists(attendance, r.existing.attendance_id)])
  /\ UNCHANGED <<clock, qr_tokens, identity, dialect, workers, session, tables>>

\* now = datetime.now(); status from now.time()
SubmitNow(r) ==
  /\ r \in InFlight /\ r.op = "submit" /\ r.pc = "now"
  /\ Step(r, [r EXCEPT !.pc = "insert", !.now = clock, !.status = CheckinStatus(clock)])
  /\ UNCHANGED <<clock, qr_tokens, attendance, identity, dialect, workers, session, tables>>

\* session.pop('pending_checkin_token', None) and the same for the date
Popped(cookie) ==
  [cookie EXCEPT !.pending_checkin_token = NoToken, !.pending_checkin_date = NoStr]

\* db.session.add(attendance); db.session.commit(); the audit log; the
\* response, before which the pending check-in is taken out of the
\* session.  The browser sends its requests one at a time, so the session
\* the handler holds is the one the browser has.  A row for the same employee and date makes the commit raise
\* IntegrityError, which the handler's except clause turns into the
\* generic error.
SubmitInsert(r) ==
  /\ r \in InFlight /\ r.op = "submit" /\ r.pc = "insert"
  /\ IF UniqueOk(attendance, r.emp, r.date)
     THEN LET id == NewRowId(attendance, identity, dialect)
          IN /\ id <= MaxId
             /\ attendance' = attendance \cup
                  {[attendance_id |-> id, employee_id |-> r.emp, date |-> r.date,
                    status |-> r.status, check_in_time |-> r.now,
                    check_out_time |-> NoTime, notes |-> FormNotes(0)]}
             /\ identity' = IF dialect = "sqlite" THEN identity ELSE id
             /\ reqs' = BagOfAll(LAMBDA o : Witnessed(r, o), reqs (-) SetToBag({r}))
             /\ resp' = Response("submit", "Success", r)
             /\ session' = IF r.browser THEN Popped(session) ELSE session
     ELSE /\ Finish(r, "Error")
          /\ UNCHANGED <<attendance, identity, session>>
  /\ UNCHANGED <<clock, qr_tokens, dialect, workers, tables>>

----------------------------------------------------------------------------
(* employee_checkout: POST /employee/checkout *)

\* the instants of a working day the hours are computed between: 09:15:00,
\* 09:15:17 to 09:15:19, 09:15:54, 09:16:30 and 17:15:00
HourTimes == {33300, 33317, 33318, 33319, 33354, 33390, 62100}

\* round(hours, 2) rounds the binary float hours = seconds / 3600.  A
\* difference of 36k + 18 seconds is a decimal tie, and the float nearest
\* to the quotient lies above or below it: of the ties between the instants
\* of the model, 54 s (0.015 -> 0.01) and 28710 s (7.975 -> 7.97) round
\* down, the others (18 s, 90 s, 28746 s, 28782 s) round up.
HalfDown == {54, 28710}

\* mutant of calculate_hours_worked: the hundredths are cut off
Mutcalculate_hours_worked(check_in_time, check_out_time) ==
  IF check_in_time # NoTime /\ check_out_time # NoTime
  THEN ((check_out_time.day - check_in_time.day) * 86400
          + check_out_time.secs - check_in_time.secs) \div 36
  ELSE 0

\* Attendance.calculate_hours_worked, in hundredths of an hour:
\* round((out - in).total_seconds() / 3600, 2), 0 when a time is missing
calculate_hours_worked(check_in_time, check_out_time) ==
  IF check_in_time # NoTime /\ check_out_time # NoTime
  THEN LET delta == (check_out_time.day - check_in_time.day) * 86400
                      + check_out_time.secs - check_in_time.secs
       IN IF delta \in HalfDown THEN (delta - 18) \div 36
          ELSE (2 * delta + 36) \div 72
  ELSE 0

\* attendance.check_in_time.strftime(...) raises AttributeError on None
NotesRaise(row) == row.check_in_time = NoTime

\* f'Checked in: ... | Checked out: ... | Hours: ...h'
SummaryNotes(row, now) ==
  [kind |-> "summary", txt |-> 0, t_in |-> Strftime(row.check_in_time),
   t_out |-> Strftime(now), hours |-> calculate_hours_worked(row.check_in_time, now)]

\* mutant of AlreadyCheckedOut: the test is missing
MutAlreadyCheckedOut(row) == FALSE

\* attendance.check_out_time
AlreadyCheckedOut(row) == row.check_out_time # NoTime

CheckoutBegin(sess) ==
  LET r0 == NewReq("checkout", sess)
      emp == FindEmployee(sess.user_id)
      today == clock.day
      row == QueryAttendance(attendance, emp, today)
      r1 == [r0 EXCEPT !.emp = emp, !.date = today,
                       !.existing = Loaded(row, {"check_in_time", "check_out_time"})]
  IN /\ IF ~LoggedIn(sess) THEN Return("checkout", "LoginRequired", Blank("checkout"))
        ELSE IF SessionRole(sess) # "employee" THEN Return("checkout", "AccessDenied", Blank("checkout"))
        ELSE IF emp = 0 THEN Return("checkout", "EmployeeNotFound", Blank("checkout"))
        ELSE IF row = NoRow THEN Return("checkout", "NoCheckInFound", r1)
        ELSE IF AlreadyCheckedOut(row) THEN Return("checkout", "AlreadyCheckedOut", r1)
        ELSE Enter([r1 EXCEPT !.pc = "now"])
     /\ UNCHANGED <<clock, qr_tokens, attendance, identity, dialect, workers, session, tables>>

\* now = datetime.now(); attendance.check_out_time = now; the hours and the
\* notes are computed on the loaded object.  An exception here ends in the
\* except clause: rollback, nothing was flushed.
CheckoutNow(r) ==
  /\ r \in InFlight /\ r.op = "checkout" /\ r.pc = "now"
  /\ IF NotesRaise(r.existing)
     THEN Finish(r, "Error")
     ELSE Step(r, [r EXCEPT !.pc = "commit", !.now = clock,
                            !.notes = SummaryNotes(r.existing, clock)])
  /\ UNCHANGED <<clock, qr_tokens, attendance, identity, dialect, workers, session, tables>>

\* db.session.commit(): UPDATE attendance SET check_out_time, notes WHERE
\* attendance_id = <the loaded row's>.  No row matched: StaleDataError,
\* rollback, the generic error.
CheckoutCommit(r) ==
  /\ r \in InFlight /\ r.op = "checkout" /\ r.pc = "commit"
  /\ IF RowExists(attendance, r.existing.attendance_id)
     THEN /\ attendance' =
               {IF row.attendance_id = r.existing.attendance_id
                THEN [row EXCEPT !.check_out_time = r.now, !.notes = r.notes]
                ELSE row : row \in attendance}
          /\ Finish(r, "Success")
     ELSE /\ Finish(r, "Error")
          /\ UNCHANGED attendance
  /\ UNCHANGED <<clock, qr_tokens, identity, dialect, workers, session, tables>>

----------------------------------------------------------------------------
(* mark_attendance: POST /attendance/mark, and repository.mark_attendance *)

\* the form: employee_<id>_status and employee_<id>_notes, one pair for
\* each employee of a set
FormEntries == [employee_id : Employees, status : Statuses, txt : NoteTexts]
Forms == {f \in SUBSET FormEntries :
            \A a, b \in f : a.employee_id = b.employee_id => a = b}

\* a column the ORM object has no pending change for
Clean == "clean"
CleanNotes == [kind |-> "clean", txt |-> 0, t_in |-> 0, t_out |-> 0, hours |-> 0]

\* repository.mark_attendance up to the commit, for one entry of the form:
\* the query for an existing record, then existing.status = status;
\* existing.notes = notes, which leaves a change pending for each attribute
\* whose value differs from the loaded one, or the new Attendance(...)
MarkQuery(r, e) ==
  LET existing == QueryAttendance(attendance, e.employee_id, r.date)
  IN [r EXCEPT
        !.pc = "commit", !.emp = e.employee_id, !.todo = @ \ {e},
        !.existing = Loaded(existing, {}),
        !.status = IF existing # NoRow /\ existing.status = e.status
                   THEN Clean ELSE e.status,
        !.notes = IF existing # NoRow /\ existing.notes = FormNotes(e.txt)
                  THEN CleanNotes ELSE FormNotes(e.txt)]

\* the route: admin_required, parse_date, then one call of
\* repository.mark_attendance for each entry of the form; this step runs
\* up to the query of the first call
MarkBegin(sess, datestr, form) ==
  LET r0 == [NewReq("mark", sess) EXCEPT !.datestr = datestr]
      attendance_date == Strptime(datestr)
  IN /\ IF ~LoggedIn(sess) THEN Return("mark", "LoginRequired", Blank("mark"))
        ELSE IF get_user_by_id(sess.user_id).role # "admin"
          THEN Return("mark", "AdminRequired", Blank("mark"))
        ELSE IF attendance_date = 0 THEN Return("mark", "InvalidDate", Blank("mark"))
        ELSE IF form = {} THEN Return("mark", "Marked", Blank("mark"))
        ELSE \E e \in form :
               Enter(MarkQuery([r0 EXCEPT !.date = attendance_date, !.todo = form], e))
     /\ UNCHANGED <<clock, qr_tokens, attendance, identity, dialect, workers, session, tables>>

\* the next call of repository.mark_attendance, up to its commit
MarkRead(r) ==
  /\ r \in InFlight /\ r.op = "mark" /\ r.pc = "read"
  /\ \E e \in r.todo : Step(r, MarkQuery(r, e))
  /\ UNCHANGED <<clock, qr_tokens, attendance, identity, dialect, workers, session, tables>>

\* mutant of MarkUpdate: marking resets the check-in
MutMarkUpdate(row, r) ==
  [row EXCEPT !.status = IF r.status # Clean THEN r.status ELSE @,
              !.notes = IF r.notes # CleanNotes THEN r.notes ELSE @,
              !.check_in_time = NoTime]

\* the row after the UPDATE that flushes the pending changes
MarkUpdate(row, r) ==
  [row EXCEPT !.status = IF r.status # Clean THEN r.status ELSE @,
              !.notes = IF r.notes # CleanNotes THEN r.notes ELSE @]

\* repository.mark_attendance, db.session.commit(): the UPDATE of the
\* loaded row (none when nothing changed; StaleDataError and rollback when
\* no row has its primary key) or the INSERT of a new row without
\* timestamps (IntegrityError and rollback when the employee and date are
\* taken).  The route ignores the result and goes on with the next entry.
MarkCommit(r) ==
  /\ r \in InFlight /\ r.op = "mark" /\ r.pc = "commit"
  /\ IF r.existing # NoRow
     THEN /\ attendance' =
               IF r.status = Clean /\ r.notes = CleanNotes
               THEN attendance
               ELSE {IF row.attendance_id = r.existing.attendance_id
                     THEN MarkUpdate(row, r) ELSE row : row \in attendance}
          /\ UNCHANGED identity
     ELSE IF UniqueOk(attendance, r.emp, r.date)
     THEN LET id == NewRowId(attendance, identity, dialect)
          IN /\ id <= MaxId
             /\ attendance' = attendance \cup
                  {[attendance_id |-> id, employee_id |-> r.emp, date |-> r.date,
                    status |-> r.status, check_in_time |-> NoTime,
                    check_out_time |-> NoTime, notes |-> r.notes]}
             /\ identity' = IF dialect = "sqlite" THEN identity ELSE id
     ELSE UNCHANGED <<attendance, identity>>
  /\ IF r.todo = {} THEN Finish(r, "Marked")
     ELSE Step(r, [r EXCEPT !.pc = "read"])
  /\ UNCHANGED <<clock, qr_tokens, dialect, workers, session, tables>>

----------------------------------------------------------------------------
(* admin_qr_checkin: GET /admin/qr-checkin, and get_or_create_qr_token *)

\* the registry with a token stored for a key
Stored(tokens, key, t) ==
  [k \in DOMAIN tokens \cup {key} |-> IF k = key THEN t ELSE tokens[k]]

\* del qr_tokens[key]
Deleted(tokens, key) == [k \in DOMAIN tokens \ {key} |-> tokens[k]]

\* expired_dates = [d for d in list(qr_tokens.keys()) if d < today]
Expired(tokens, today) == {d \in DOMAIN tokens : IsoLess(d, today)}

\* qr_tokens.get(key), NoToken for None
Lookup(tokens, key) == IF key \in DOMAIN tokens THEN tokens[key] ELSE NoToken

\* mutant of Missing: a token is generated on every call
MutMissing(tokens, key) == TRUE

\* date_str not in qr_tokens
Missing(tokens, key) == key \notin DOMAIN tokens

\* the route up to the call get_or_create_qr_token(today), with
\* today = date.today().isoformat()
QrBegin(sess) ==
  LET r0 == NewReq("qr", sess)
  IN /\ IF ~LoggedIn(sess) THEN Return("qr", "LoginRequired", Blank("qr"))
        ELSE IF SessionRole(sess) # "admin" THEN Return("qr", "AccessDenied", Blank("qr"))
        ELSE Enter([r0 EXCEPT !.pc = "expired", !.datestr = IsoFormat(clock.day),
                              !.date = clock.day,
                              !.seen = Lookup(qr_tokens, IsoFormat(clock.day))])
     /\ UNCHANGED <<clock, qr_tokens, attendance, identity, dialect, workers, session, tables>>

\* get_or_create_qr_token: today = date.today().isoformat() and the list of
\* the expired keys
QrExpired(r) ==
  /\ r \in InFlight /\ r.op = "qr" /\ r.pc = "expired"
  /\ LET expired_dates == Expired(qr_tokens, IsoFormat(clock.day))
     IN Step(r, [r EXCEPT !.expired = expired_dates,
                          !.pc = IF expired_dates = {} THEN "test" ELSE "delete"])
  /\ UNCHANGED <<clock, qr_tokens, attendance, identity, dialect, workers, session, tables>>

\* for expired_date in expired_dates: del qr_tokens[expired_date], the
\* oldest key first; a key another request has deleted raises KeyError,
\* which no handler catches
QrDelete(r) ==
  /\ r \in InFlight /\ r.op = "qr" /\ r.pc = "delete"
  /\ LET d == CHOOSE x \in r.expired : \A y \in r.expired : ~IsoLess(y, x)
         rest == r.expired \ {d}
     IN IF d \in DOMAIN qr_tokens
        THEN /\ qr_tokens' = Deleted(qr_tokens, d)
             /\ Step(r, [r EXCEPT !.expired = rest,
                                  !.pc = IF rest = {} THEN "test" ELSE "delete"])
        ELSE /\ Finish(r, "KeyError")
             /\ UNCHANGED qr_tokens
  /\ UNCHANGED <<clock, attendance, identity, dialect, workers, session, tables>>

\* if date_str not in qr_tokens
QrTest(r) ==
  /\ r \in InFlight /\ r.op = "qr" /\ r.pc = "test"
  /\ Step(r, [r EXCEPT !.pc = IF Missing(qr_tokens, r.datestr) THEN "store" ELSE "return"])
  /\ UNCHANGED <<clock, qr_tokens, attendance, identity, dialect, workers, session, tables>>

\* qr_tokens[date_str] = secrets.token_urlsafe(16)
QrStore(r) ==
  /\ r \in InFlight /\ r.op = "qr" /\ r.pc = "store"
  /\ \E t \in Tokens : qr_tokens' = Stored(qr_tokens, r.datestr, t)
  /\ Step(r, [r EXCEPT !.pc = "return"])
  /\ UNCHANGED <<clock, attendance, identity, dialect, workers, session, tables>>

\* return qr_tokens[date_str], and the page with the QR code
QrReturn(r) ==
  /\ r \in InFlight /\ r.op = "qr" /\ r.pc = "return"
  /\ IF r.datestr \in DOMAIN qr_tokens
     THEN FinishAs(r, [r EXCEPT !.token = qr_tokens[r.datestr]], "Page")
     ELSE Finish(r, "KeyError")
  /\ UNCHANGED <<clock, qr_tokens, attendance, identity, dialect, workers, session, tables>>

----------------------------------------------------------------------------
(* employee_qr_checkin: GET /checkin/<token>?date=... *)

\* mutants of ScanVerdict: the token is not compared; the registry is
\* consulted before the date
MutScanVerdictAnyToken(tokens, today, datestr, token) ==
  IF datestr # today THEN "TokenExpired"
  ELSE IF Lookup(tokens, datestr) = NoToken THEN "NoTokenIssued"
  ELSE "Valid"
MutScanVerdictRegistryFirst(tokens, today, datestr, token) ==
  IF Lookup(tokens, datestr) = NoToken THEN "NoTokenIssued"
  ELSE IF Lookup(tokens, datestr) # token THEN "TokenMismatch"
  ELSE IF datestr # today THEN "TokenExpired"
  ELSE "Valid"

\* the tests on the date and the token: checkin_date != today_date, then
\* stored_token = qr_tokens.get(checkin_date), not stored_token,
\* stored_token != token
ScanVerdict(tokens, today, datestr, token) ==
  IF datestr # today THEN "TokenExpired"
  ELSE IF Lookup(tokens, datestr) = NoToken THEN "NoTokenIssued"
  ELSE IF Lookup(tokens, datestr) # token THEN "TokenMismatch"
  ELSE "Valid"

\* mutant of ScanRegistry: a scan stores the presented token when the
\* date has none
MutScanRegistry(tokens, datestr, token) ==
  IF datestr \in DOMAIN tokens THEN tokens ELSE Stored(tokens, datestr, token)

\* the registry after the handler: qr_tokens.get reads, nothing is stored
ScanRegistry(tokens, datestr, token) == tokens

\* session['pending_checkin_token'] = token and the same for the date
Pending(cookie, token, datestr) ==
  [cookie EXCEPT !.pending_checkin_token = token, !.pending_checkin_date = datestr]

\* the handler up to the verdict on the date and the token.  The token is
\* a segment of the path, never empty; the date is a query parameter.  A
\* link with a date is noted in the session before the session is looked
\* at.
ScanFrom(browser, sess, token, datestr) ==
  LET r0 == [NewReq("scan", sess) EXCEPT !.token = token, !.datestr = datestr,
                                          !.date = Strptime(datestr),
                                          !.browser = browser]
      verdict == ScanVerdict(qr_tokens, IsoFormat(clock.day), datestr, token)
  IN /\ IF datestr = NoStr THEN Return("scan", "InvalidLink", Blank("scan"))
        ELSE IF ~LoggedIn(sess) THEN Return("scan", "LoginRequired", r0)
        ELSE IF SessionRole(sess) # "employee" THEN Return("scan", "AccessDenied", Blank("scan"))
        ELSE IF verdict # "Valid" THEN Return("scan", verdict, r0)
        ELSE Enter([r0 EXCEPT !.pc = "page"])
     /\ qr_tokens' = ScanRegistry(qr_tokens, datestr, token)
     /\ session' = IF browser /\ datestr # NoStr
                   THEN Pending(session, token, datestr) ELSE session
     /\ UNCHANGED <<clock, attendance, identity, dialect, workers, tables>>

\* the scan of a client other than the browser
ScanBegin(sess, token, datestr) == ScanFrom(FALSE, sess, token, datestr)

\* the employee, today = date.today(), today's attendance record, and the
\* check-in page
ScanPage(r) ==
  /\ r \in InFlight /\ r.op = "scan" /\ r.pc = "page"
  /\ LET emp == FindEmployee(r.sess.user_id)
         row == IF emp = 0 THEN NoRow ELSE QueryAttendance(attendance, emp, clock.day)
     IN FinishAs(r, [r EXCEPT !.emp = emp, !.existing = Loaded(row, {})], "Accepted")
  /\ UNCHANGED <<clock, qr_tokens, attendance, identity, dialect, workers, session, tables>>

----------------------------------------------------------------------------
(* login and logout: the session of one browser *)

\* str.strip() of a form field, a text being the sequence of its pieces
RECURSIVE LStrip(_)
LStrip(text) ==
  IF text # <<>> /\ Head(text) = " " THEN LStrip(Tail(text)) ELSE text
RECURSIVE RStrip(_)
RStrip(text) ==
  IF text # <<>> /\ text[Len(text)] = " "
  THEN RStrip(SubSeq(text, 1, Len(text) - 1)) ELSE text
Strip(text) == RStrip(LStrip(text))

\* repo.get_user_by_username: User.query.filter_by(username=username).first()
get_user_by_username(username) ==
  IF \E u \in users : u.username = username
  THEN CHOOSE u \in users : u.username = username
  ELSE NoUser

\* what a handler reads of the browser's session
SessionOf(cookie) == [user_id |-> cookie.user_id, role |-> cookie.role]

\* mutant of Cleared: the pending check-in is not restored
MutCleared(cookie) == NoCookie

\* session.clear() of a POST, and the pending check-in restored when the
\* session held both its token and its date
Cleared(cookie) ==
  IF cookie.pending_checkin_token # NoToken /\ cookie.pending_checkin_date # NoStr
  THEN Pending(NoCookie, cookie.pending_checkin_token, cookie.pending_checkin_date)
  ELSE NoCookie

\* mutant of check_password: every password passes
Mutcheck_password(user, password) == TRUE

\* User.check_password
check_password(user, password) == check_password_hash(user.password_hash, password)

\* POST /login.  The response tells the pending check-in the session holds
\* after the request: the target of the redirect when there is one.
LoginPost(username, password) ==
  LET cleared == Cleared(session)
      name == Strip(username)
      user == get_user_by_username(name)
      r0 == [NewReq("login", SessionOf(session)) EXCEPT
               !.username = username, !.password = password,
               !.token = cleared.pending_checkin_token,
               !.datestr = cleared.pending_checkin_date]
  IN /\ reqs = EmptyBag
     /\ IF name = <<>> \/ password = ""
        THEN /\ session' = cleared
             /\ Return("login", "CredentialsRequired", r0)
        ELSE IF user # NoUser /\ check_password(user, password)
        THEN /\ session' = [cleared EXCEPT !.user_id = user.user_id,
                                           !.username = user.username,
                                           !.role = user.role]
             /\ Return("login",
                       IF cleared.pending_checkin_token # NoToken
                       THEN "RedirectCheckin" ELSE "RedirectDashboard", r0)
        ELSE /\ session' = cleared
             /\ Return("login", "InvalidCredentials", r0)
     /\ UNCHANGED <<clock, qr_tokens, attendance, identity, dialect, workers, tables>>

\* GET /login: a logged-in browser is sent on, to the pending check-in if
\* the session holds one
LoginGet ==
  LET r0 == [NewReq("login_page", SessionOf(session)) EXCEPT
               !.token = session.pending_checkin_token,
               !.datestr = session.pending_checkin_date]
  IN /\ reqs = EmptyBag
     /\ IF ~LoggedIn(session) THEN Return("login_page", "LoginPage", r0)
        ELSE IF session.pending_checkin_token # NoToken
                  /\ session.pending_checkin_date # NoStr
        THEN Return("login_page", "RedirectCheckin", r0)
        ELSE Return("login_page", "RedirectDashboard", r0)
     /\ UNCHANGED <<clock, qr_tokens, attendance, identity, dialect, workers,
                    session, tables>>

\* GET /logout: session.clear()
Logout ==
  /\ reqs = EmptyBag
  /\ IF ~LoggedIn(SessionOf(session))
     THEN /\ Return("logout", "LoginRequired", Blank("logout"))
          /\ UNCHANGED session
     ELSE /\ Return("logout", "LoggedOut", NewReq("logout", SessionOf(session)))
          /\ session' = NoCookie
  /\ UNCHANGED <<clock, qr_tokens, attendance, identity, dialect, workers, tables>>

----------------------------------------------------------------------------
(* repository.py: users, employees, departments and leave requests.  The *)
(* functions are called one at a time, each call is one step.            *)

\* the primary key of a new row: the largest stored key and one
NextKey(keys) ==
  IF keys = {} THEN 1 ELSE (CHOOSE m \in keys : \A k \in keys : k <= m) + 1

\* mutant of UsernameFree: the column is not unique
MutUsernameFree(table, username) == TRUE

\* users.username is unique: may a row with this name be inserted?
UsernameFree(table, username) == \A u \in table : u.username # username

\* create_user: User(username, password, role), add, commit; the
\* IntegrityError of the unique column is answered 'Username already exists'
create_user(username, password, role) ==
  LET r0 == [NewReq("create_user", NoSession) EXCEPT
               !.username = username, !.password = password]
  IN /\ reqs = EmptyBag
     /\ IF UsernameFree(users, username)
        THEN /\ Cardinality(users) < Cardinality(UserTable) + MaxRows
             /\ users' = users \cup
                  {[user_id |-> NextKey({u.user_id : u \in users}),
                    username |-> username, role |-> role,
                    password_hash |-> generate_password_hash(password)]}
             /\ Return("create_user", "Created", r0)
        ELSE /\ Return("create_user", "UsernameExists", r0)
             /\ UNCHANGED users
     /\ UNCHANGED <<clock, qr_tokens, attendance, identity, dialect, workers,
                    session, employees, departments, leave_requests>>

\* None for an employee, a department, a leave request
NoEmployee == [employee_id |-> 0, email |-> <<>>, department_id |-> 0, status |-> "none"]
NoDepartment == [department_id |-> 0, name |-> "none"]
NoLeave == [leave_id |-> 0, employee_id |-> 0, status |-> "none", reviewed_at |-> NoTime]

\* get_employee_by_id: Employee.query.get(employee_id)
get_employee_by_id(table, employee_id) ==
  IF \E e \in table : e.employee_id = employee_id
  THEN CHOOSE e \in table : e.employee_id = employee_id
  ELSE NoEmployee

\* get_all_employees: filter_by(status='active') unless include_inactive
get_all_employees(table, include_inactive) ==
  IF include_inactive THEN table ELSE {e \in table : e.status = "active"}

\* create_employee: Employee(...), add, commit.  employees.email is unique;
\* the foreign key to departments is enforced by SQL Server and not by
\* SQLite, and both IntegrityErrors are answered 'Email already exists'.
create_employee(email, department_id) ==
  LET r0 == [NewReq("create_employee", NoSession) EXCEPT !.key = department_id]
      taken == \E e \in employees : e.email = email
      dangling == /\ dialect = "mssql"
                  /\ \A d \in departments : d.department_id # department_id
  IN /\ reqs = EmptyBag
     /\ IF taken \/ dangling
        THEN /\ Return("create_employee", "EmailExists", r0)
             /\ UNCHANGED employees
        ELSE /\ Cardinality(employees) < Cardinality(EmployeeTable) + MaxRows
             /\ employees' = employees \cup
                  {[employee_id |-> NextKey({e.employee_id : e \in employees}),
                    email |-> email, department_id |-> department_id,
                    status |-> "active"]}
             /\ Return("create_employee", "Created", r0)
     /\ UNCHANGED <<clock, qr_tokens, attendance, identity, dialect, workers,
                    session, users, departments, leave_requests>>

\* mutant of deactivate: the status is left as it is
Mutdeactivate(e) == e

\* Employee.deactivate
deactivate(e) == [e EXCEPT !.status = "inactive"]

\* delete_employee: the employee marked inactive, or deleted together with
\* its attendance records and leave requests (cascade='all, delete-orphan')
delete_employee(employee_id, soft_delete) ==
  LET r0 == [NewReq("delete_employee", NoSession) EXCEPT
               !.key = employee_id, !.flag = soft_delete]
      employee == get_employee_by_id(employees, employee_id)
  IN /\ reqs = EmptyBag
     /\ IF employee = NoEmployee
        THEN /\ Return("delete_employee", "NotFound", r0)
             /\ UNCHANGED <<employees, attendance, leave_requests>>
        ELSE IF soft_delete
        THEN /\ employees' = (employees \ {employee}) \cup {deactivate(employee)}
             /\ Return("delete_employee", "Inactive", r0)
             /\ UNCHANGED <<attendance, leave_requests>>
        ELSE /\ employees' = employees \ {employee}
             /\ attendance' = {row \in attendance : row.employee_id # employee_id}
             /\ leave_requests' = {l \in leave_requests : l.employee_id # employee_id}
             /\ Return("delete_employee", "Deleted", r0)
     /\ UNCHANGED <<clock, qr_tokens, identity, dialect, workers,
                    session, users, departments>>

\* mutant of get_employee_count: only the active employees are counted
Mutget_employee_count(table, department_id) ==
  Cardinality({e \in table : e.department_id = department_id /\ e.status = "active"})

\* Department.get_employee_count: self.employees.count()
get_employee_count(table, department_id) ==
  Cardinality({e \in table : e.department_id = department_id})

\* Department.can_delete
can_delete(table, department_id) == get_employee_count(table, department_id) = 0

\* delete_department
delete_department(department_id) ==
  LET r0 == [NewReq("delete_department", NoSession) EXCEPT !.key = department_id]
      found == {d \in departments : d.department_id = department_id}
  IN /\ reqs = EmptyBag
     /\ IF found = {}
        THEN /\ Return("delete_department", "NotFound", r0)
             /\ UNCHANGED departments
        ELSE IF ~can_delete(employees, department_id)
        THEN /\ Return("delete_department", "CannotDelete", r0)
             /\ UNCHANGED departments
        ELSE /\ departments' = departments \ found
             /\ Return("delete_department", "Deleted", r0)
     /\ UNCHANGED <<clock, qr_tokens, attendance, identity, dialect, workers,
                    session, users, employees, leave_requests>>

\* create_leave_request: LeaveRequest(...), add, commit; the status is
\* the column default 'Pending', reviewed_at is not set.  The foreign key
\* to employees is enforced by SQL Server only.
create_leave_request(employee_id) ==
  LET r0 == [NewReq("create_leave_request", NoSession) EXCEPT
               !.emp = employee_id,
               !.key = NextKey({l.leave_id : l \in leave_requests})]
  IN /\ reqs = EmptyBag
     /\ IF dialect = "mssql" /\ get_employee_by_id(employees, employee_id) = NoEmployee
        THEN /\ Return("create_leave_request", "Error", r0)
             /\ UNCHANGED leave_requests
        ELSE /\ Cardinality(leave_requests) < MaxRows
             /\ leave_requests' = leave_requests \cup
                  {[leave_id |-> r0.key, employee_id |-> employee_id,
                    status |-> "Pending", reviewed_at |-> NoTime]}
             /\ Return("create_leave_request", "Created", r0)
     /\ UNCHANGED <<clock, qr_tokens, attendance, identity, dialect, workers,
                    session, users, employees, departments>>

\* mutant of Reviewed: reviewed_at is not set
MutReviewed(l, status, now) == [l EXCEPT !.status = status]

\* LeaveRequest.approve / reject: the status and reviewed_at = utcnow()
Reviewed(l, status, now) == [l EXCEPT !.status = status, !.reviewed_at = now]

\* update_leave_status
update_leave_status(leave_id, status) ==
  LET r0 == [NewReq("update_leave_status", NoSession) EXCEPT
               !.key = leave_id, !.status = status]
      found == {l \in leave_requests : l.leave_id = leave_id}
  IN /\ reqs = EmptyBag
     /\ IF found = {}
        THEN /\ Return("update_leave_status", "NotFound", r0)
             /\ UNCHANGED leave_requests
        ELSE IF status \in {"Approved", "Rejected"}
        THEN /\ leave_requests' =
                  (leave_requests \ found) \cup {Reviewed(l, status, clock) : l \in found}
             /\ Return("update_leave_status", "Updated", r0)
        ELSE /\ Return("update_leave_status", "InvalidStatus", r0)
             /\ UNCHANGED leave_requests
     /\ UNCHANGED <<clock, qr_tokens, attendance, identity, dialect, workers,
                    session, users, employees, departments>>

----------------------------------------------------------------------------
(* The system *)

\* the database as init_data leaves it, cut down to one administrator, two
\* employee users, two departments and one employee; no browser session
Seeded ==
  /\ session = NoCookie
  /\ users = UserTable
  /\ employees = EmployeeTable
  /\ departments = DepartmentTable
  /\ leave_requests = {}

\* the process starts with an empty registry; the database holds the users
\* and employees and no attendance yet.  The database is SQLite on the
\* deployment and SQL Server on a developer's machine.
Init ==
  /\ clock = [day |-> 1, secs |-> LateCutoff - 1]
  /\ qr_tokens = [k \in {} |-> NoToken]
  /\ attendance = {}
  /\ identity = 0
  /\ dialect \in {"sqlite", "mssql"}
  /\ workers = MaxReq
  /\ reqs = EmptyBag
  /\ resp = NoResponse
  /\ Seeded

\* the requests a client sends.  A request that the first test of the
\* handler turns away is sent once, with its other fields empty: they are
\* never read.
SubmitInputs ==
  {i \in [sess : Sessions, token : Tokens \cup {NoToken}, datestr : DateStrings] :
     i.sess.role # "employee" => (i.token = NoToken /\ i.datestr = NoStr)}

MarkInputs ==
  {i \in [sess : Sessions, datestr : DateStrings, form : Forms] :
     i.sess.role # "admin" => (i.datestr = NoStr /\ i.form = {})}

Submit ==
  \/ \E i \in SubmitInputs : SubmitBegin(i.sess, i.token, i.datestr)
  \/ \E r \in InFlight : SubmitDelete(r)
  \/ \E r \in InFlight : SubmitNow(r)
  \/ \E r \in InFlight : SubmitInsert(r)

Checkout ==
  \/ \E sess \in Sessions : CheckoutBegin(sess)
  \/ \E r \in InFlight : CheckoutNow(r)
  \/ \E r \in InFlight : CheckoutCommit(r)

Mark ==
  \/ \E i \in MarkInputs : MarkBegin(i.sess, i.datestr, i.form)
  \/ \E r \in InFlight : MarkRead(r)
  \/ \E r \in InFlight : MarkCommit(r)

Qr ==
  \/ \E sess \in Sessions : QrBegin(sess)
  \/ \E r \in InFlight : QrExpired(r)
  \/ \E r \in InFlight : QrDelete(r)
  \/ \E r \in InFlight : QrTest(r)
  \/ \E r \in InFlight : QrStore(r)
  \/ \E r \in InFlight : QrReturn(r)

\* a scan by someone the handler turns away before it reads the token is
\* sent once
ScanInputs ==
  {i \in [sess : Sessions, token : Tokens, datestr : DateStrings] :
     (i.sess.role # "employee" \/ i.datestr = NoStr) => i.token = 1}

Scan ==
  \/ \E i \in ScanInputs : ScanBegin(i.sess, i.token, i.datestr)
  \/ \E r \in InFlight : ScanPage(r)

\* every handler, on every day
Next == Tick \/ Midnight \/ Submit \/ Checkout \/ Mark \/ Qr \/ Scan

Spec == Init /\ [][Next]_vars

\* the attendance of one day: check-in, check-out and marking for today,
\* under every interleaving of their steps.  With one employee profile a
\* form has one entry, so a marking request makes one repository call.
MarkToday ==
  \/ \E i \in MarkInputs :
       /\ i.datestr \in {IsoFormat(clock.day), BadStr, NoStr}
       /\ MarkBegin(i.sess, i.datestr, i.form)
  \/ \E r \in InFlight : MarkCommit(r)

\* the handler never reads the token again: one value stands for all
SubmitToday ==
  \/ \E i \in SubmitInputs :
       /\ i.token \in {NoToken, 1}
       /\ SubmitBegin(i.sess, i.token, i.datestr)
  \/ \E r \in InFlight : SubmitDelete(r)
  \/ \E r \in InFlight : SubmitNow(r)
  \/ \E r \in InFlight : SubmitInsert(r)

NextAttendance == Tick \/ SubmitToday \/ Checkout \/ MarkToday

SpecAttendance == Init /\ [][NextAttendance]_vars

\* the same day on the SQLite deployment with one request thread more,
\* the administrator marking absences
InitStale ==
  /\ clock = [day |-> 1, secs |-> LateCutoff - 1]
  /\ qr_tokens = [k \in {} |-> NoToken]
  /\ attendance = {}
  /\ identity = 0
  /\ dialect = "sqlite"
  /\ workers = MaxReq + 1
  /\ reqs = EmptyBag
  /\ resp = NoResponse
  /\ Seeded

MarkAbsent ==
  \/ \E i \in MarkInputs :
       /\ i.datestr = IsoFormat(clock.day)
       /\ \A e \in i.form : e.status = "Absent"
       /\ MarkBegin(i.sess, i.datestr, i.form)
  \/ \E r \in InFlight : MarkCommit(r)

NextStale == Tick \/ SubmitToday \/ Checkout \/ MarkAbsent

SpecStale == InitStale /\ [][NextStale]_vars

\* the process with one request served at a time
InitSerial ==
  /\ clock = [day |-> 1, secs |-> LateCutoff - 1]
  /\ qr_tokens = [k \in {} |-> NoToken]
  /\ attendance = {}
  /\ identity = 0
  /\ dialect \in {"sqlite", "mssql"}
  /\ workers = 1
  /\ reqs = EmptyBag
  /\ resp = NoResponse
  /\ Seeded

\* the registry and the check-in over the days, the administrator marking
\* absences, one request at a time.  The registry is keyed by the date
\* alone, so the clock moves from day to day only.
NextCheckin == Midnight \/ Qr \/ Submit \/ MarkAbsent

SpecCheckin == InitSerial /\ [][NextCheckin]_vars

\* the same with the check-out: every handler of the QR flow that writes
NextRoles == Midnight \/ Qr \/ Submit \/ Checkout \/ MarkAbsent

SpecRoles == InitSerial /\ [][NextRoles]_vars

\* the forms a browser posts to /login: the user names with and without
\* blanks around them, a name no user has, an empty and a blank field;
\* the passwords of the seeded users, a wrong one and an empty field
LoginInputs ==
  [username : {<<"admin">>, <<" ", "admin", " ">>, <<"e1", "@workflowx.com">>,
               <<"nobody">>, <<" ">>, <<>>},
   password : {"admin123", "WorkFlow@2025", "wrong", ""}]

\* a session cookie issued before init_data re-created the database: its
\* user_id is no user's
StaleCookie ==
  [NoCookie EXCEPT !.user_id = 9, !.username = <<"old">>, !.role = "admin"]

\* one browser and the requests it sends, one at a time, each with the
\* session the browser holds: login and logout, the scan, and the handlers
\* behind login_required and admin_required that write to the database.
\* The administrator has opened the QR page today, so the registry holds
\* today's token.
InitBrowser ==
  /\ clock = [day |-> 1, secs |-> LateCutoff - 1]
  /\ qr_tokens = Stored([k \in {} |-> NoToken], IsoFormat(1), 1)
  /\ attendance = {}
  /\ identity = 0
  /\ dialect \in {"sqlite", "mssql"}
  /\ workers = 1
  /\ reqs = EmptyBag
  /\ resp = NoResponse
  /\ session \in {NoCookie, StaleCookie}
  /\ users = UserTable
  /\ employees = EmployeeTable
  /\ departments = DepartmentTable
  /\ leave_requests = {}

Login ==
  \/ \E i \in LoginInputs : LoginPost(i.username, i.password)
  \/ LoginGet
  \/ Logout

BrowserScan ==
  \/ \E token \in Tokens, datestr \in DateStrings :
       /\ reqs = EmptyBag
       /\ ScanFrom(TRUE, SessionOf(session), token, datestr)
  \/ \E r \in InFlight : ScanPage(r)

BrowserSubmit ==
  \/ \E token \in Tokens \cup {NoToken}, datestr \in DateStrings :
       /\ reqs = EmptyBag
       /\ SubmitFrom(TRUE, SessionOf(session), token, datestr)
  \/ \E r \in InFlight : SubmitDelete(r)
  \/ \E r \in InFlight : SubmitNow(r)
  \/ \E r \in InFlight : SubmitInsert(r)

BrowserCheckout ==
  \/ reqs = EmptyBag /\ CheckoutBegin(SessionOf(session))
  \/ \E r \in InFlight : CheckoutNow(r)
  \/ \E r \in InFlight : CheckoutCommit(r)

BrowserMark ==
  \/ \E datestr \in DateStrings, form \in Forms :
       /\ reqs = EmptyBag
       /\ \A e \in form : e.status = "Absent"
       /\ MarkBegin(SessionOf(session), datestr, form)
  \/ \E r \in InFlight : MarkCommit(r)

NextBrowser == Login \/ BrowserScan \/ BrowserSubmit \/ BrowserCheckout \/ BrowserMark

SpecBrowser == InitBrowser /\ [][NextBrowser]_vars

\* the repository functions called one after the other, on the database
\* as init_data leaves it with the employee checked in on the first day
InitRepository ==
  /\ clock = [day |-> 1, secs |-> LateCutoff]
  /\ qr_tokens = [k \in {} |-> NoToken]
  /\ attendance =
       {[attendance_id |-> 1, employee_id |-> 1, date |-> 1, status |-> "Present",
         check_in_time |-> [day |-> 1, secs |-> LateCutoff - 1],
         check_out_time |-> NoTime, notes |-> FormNotes(0)]}
  /\ dialect \in {"sqlite", "mssql"}
  /\ identity = (IF dialect = "sqlite" THEN 0 ELSE 1)
  /\ workers = 1
  /\ reqs = EmptyBag
  /\ resp = NoResponse
  /\ Seeded

NextRepository ==
  \/ \E username \in {<<"admin">>, <<"new">>} :
        create_user(username, "other", "employee")
  \/ \E email \in {<<"e1", "@workflowx.com">>, <<"e3", "@workflowx.com">>},
        department_id \in 1..2 : create_employee(email, department_id)
  \/ \E employee_id \in 1..2, soft_delete \in BOOLEAN :
        delete_employee(employee_id, soft_delete)
  \/ \E department_id \in 1..2 : delete_department(department_id)
  \/ \E employee_id \in 1..2 : create_leave_request(employee_id)
  \/ \E leave_id \in 1..2, status \in {"Approved", "Rejected", "Pending"} :
        update_leave_status(leave_id, status)

SpecRepository == InitRepository /\ [][NextRepository]_vars

\* the registry over the days: the administrator's page and the scans
NextRegistry == Midnight \/ Qr \/ Scan

SpecRegistry == Init /\ [][NextRegistry]_vars

\* the registry with one request at a time
SpecSerial == InitSerial /\ [][NextRegistry]_vars

\* check-out at the instants of HourTimes: the employee has checked in at
\* one of them and the clock stands at the same or a later one
InitHours ==
  /\ clock \in [day : {1}, secs : HourTimes]
  /\ qr_tokens = [k \in {} |-> NoToken]
  /\ \E t \in HourTimes :
       /\ t <= clock.secs
       /\ attendance =
            {[attendance_id |-> 1, employee_id |-> 1, date |-> 1,
              status |-> CheckinStatus([day |-> 1, secs |-> t]),
              check_in_time |-> [day |-> 1, secs |-> t],
              check_out_time |-> NoTime, notes |-> FormNotes(0)]}
  /\ dialect \in {"sqlite", "mssql"}
  /\ identity = (IF dialect = "sqlite" THEN 0 ELSE 1)
  /\ workers = MaxReq
  /\ reqs = EmptyBag
  /\ resp = NoResponse
  /\ Seeded

SpecHours == InitHours /\ [][Checkout]_vars

----------------------------------------------------------------------------
(* Claims *)

\* the record stored for an employee and date has a check-in time
CheckedIn(table, e, d) ==
  \E row \in table : row.employee_id = e /\ row.date = d /\ row.check_in_time # NoTime

\* a request entered processing in this step
Entered(r) ==
  /\ BagCardinality(reqs') > BagCardinality(reqs)
  /\ r \in BagToSet(reqs')
  /\ CopiesIn(r, reqs') > CopiesIn(r, reqs)

\* C1: a check-in creates a record only if the token sent with the request
\* is the token stored in the registry for today; with any other token, or
\* with no token stored for today, no record is created.
C1_ValidTokenOnly ==
  (resp.op = "submit" /\ resp.outcome = "Success") =>
     /\ IsoFormat(resp.date) \in DOMAIN qr_tokens
     /\ qr_tokens[IsoFormat(resp.date)] = resp.token

\* C2: at most one attendance record for an employee and date, and among
\* the check-in requests for one employee and date that overlap in time at
\* most one reports success.
C2_OneRecordOneWinner ==
  /\ \A a, b \in attendance :
       (a.employee_id = b.employee_id /\ a.date = b.date) => a = b
  /\ ~(resp.op = "submit" /\ resp.outcome = "Success" /\ resp.overlap)

\* C3 as claimed: of two check-ins that both read "no existing record"
\* before either wrote, the second writer is not rejected.
C3_SecondWriterWins ==
  (resp.op = "submit" /\ resp.raced) => resp.outcome = "Success"

\* C3 as amended: of two check-ins that both read "no existing record"
\* before either wrote, the second writer is rejected whenever a record for
\* the employee and date is stored when it writes: it ends in the generic
\* error and leaves the table as it is.
C3_SecondWriterRejected ==
  [][(/\ resp'.op = "submit" /\ resp'.raced
      /\ \E row \in attendance :
           row.employee_id = resp'.emp /\ row.date = resp'.date)
     => (resp'.outcome = "Error" /\ attendance' = attendance)]_vars

C3_Witness ==
  /\ resp.op = "submit" /\ resp.raced /\ resp.outcome = "Error"
  /\ CheckedIn(attendance, resp.emp, resp.date)

\* C4: a check-in for an employee and date whose record has check_in_time
\* set yields AlreadyCheckedIn and changes no record: the AlreadyCheckedIn
\* response leaves the table as it is, no check-in request goes on to write
\* after it found such a record, and a request answered at once for an
\* employee with such a record is answered AlreadyCheckedIn.
C4_AlreadyCheckedIn ==
  [][/\ (resp'.op = "submit" /\ resp'.outcome = "AlreadyCheckedIn") =>
          /\ attendance' = attendance
          /\ reqs' = reqs
          /\ CheckedIn(attendance, resp'.emp, resp'.date)
     /\ \A r \in BagToSet(reqs') :
          (r.op = "submit" /\ Entered(r)) => ~CheckedIn(attendance, r.emp, r.date)
     /\ (/\ resp'.op = "submit" /\ resp'.emp # 0 /\ reqs' = reqs
         /\ CheckedIn(attendance, resp'.emp, resp'.date))
        => resp'.outcome = "AlreadyCheckedIn"]_vars

C4_Witness ==
  /\ resp.op = "submit" /\ resp.outcome = "AlreadyCheckedIn"
  /\ CheckedIn(attendance, resp.emp, resp.date)

\* C5: once the record of an employee and date has check_in_time set, it
\* is never cleared or changed, and once check_out_time is set neither
\* time changes again.
C5_Lifecycle ==
  [][\A row \in attendance :
       row.check_in_time # NoTime =>
         \E next \in attendance' :
           /\ next.employee_id = row.employee_id /\ next.date = row.date
           /\ next.check_in_time = row.check_in_time
           /\ row.check_out_time # NoTime => next.check_out_time = row.check_out_time]_vars

\* C6: every attendance record with check_out_time set has check_in_time
\* set, also a record that administrative marking created and that a
\* check-out request was then made for.
C6_CheckoutImpliesCheckin ==
  \A row \in attendance : row.check_out_time # NoTime => row.check_in_time # NoTime

\* C7: a check-out for an employee without a check-in today (no record, or
\* a record without check_in_time) always ends in NoCheckInFound and
\* creates and changes no record.
C7_NoCheckInFound ==
  [][(/\ resp'.op = "checkout" /\ resp'.emp # 0
      /\ ~CheckedIn(attendance, resp'.emp, resp'.date))
     => (resp'.outcome = "NoCheckInFound" /\ attendance' = attendance)]_vars

C9_PresentOrLate ==
  (resp.op = "submit" /\ resp.outcome = "Success") =>
     \E row \in attendance :
       /\ row.employee_id = resp.emp /\ row.date = resp.date
       /\ row.check_in_time # NoTime
       /\ row.check_in_time.secs < 9 * 3600 + 20 * 60 => row.status = "Present"
       /\ row.check_in_time.secs >= 9 * 3600 + 20 * 60 => row.status = "Late"

\* a check-in at 09:20:00 was stored as Late
C9_Witness ==
  /\ resp.op = "submit" /\ resp.outcome = "Success"
  /\ \E row \in attendance :
       row.check_in_time.secs = 33600 /\ row.status = "Late"

\* C10: check-in and check-out never assign Absent: whenever a record
\* comes to have status Absent, the step is the commit of an administrative
\* marking with status Absent.
C10_AbsentOnlyByMarking ==
  [][(\E row \in attendance' :
        /\ row.status = "Absent"
        /\ ~\E old \in attendance :
              old.attendance_id = row.attendance_id /\ old.status = "Absent")
     => \E r \in BagToSet(reqs) :
          /\ r.op = "mark" /\ r.pc = "commit" /\ r.status = "Absent"
          /\ CopiesIn(r, reqs') < CopiesIn(r, reqs)]_vars

\* a checked-in record that marking set to Absent
C10_Witness ==
  \E row \in attendance : row.status = "Absent" /\ row.check_in_time # NoTime

C12_DayScoped ==
  [][/\ \A row \in attendance' :
          /\ row.check_in_time # NoTime => row.check_in_time.day = row.date
          /\ row.check_out_time # NoTime => row.check_out_time.day = row.date
     /\ \A row \in attendance' \ attendance :
          row.check_in_time # NoTime => row.date = clock.day
     /\ \A r \in BagToSet(reqs') :
          (r.op = "submit" /\ Entered(r)) => r.datestr = IsoFormat(clock.day)]_vars

C14_LazyPurge ==
  (resp.op = "qr" /\ resp.outcome = "Page") =>
     \A d \in DOMAIN qr_tokens : ~IsoLess(d, IsoFormat(clock.day))

\* C15: a stored token is never mutated: while a date has an entry its
\* value does not change, and a call returns the value stored for its date,
\* also when the calls of two requests interleave.
C15_NeverMutated ==
  [][/\ \A d \in DOMAIN qr_tokens \cap DOMAIN qr_tokens' :
          qr_tokens'[d] = qr_tokens[d]
     /\ (resp'.op = "qr" /\ resp'.outcome = "Page") =>
          Lookup(qr_tokens', IsoFormat(resp'.date)) = resp'.token]_vars

\* C16: a scan, accepted or rejected, leaves the registry as it is; a scan
\* on a day without a token creates none.
C16_ScanLeavesRegistry ==
  [][(\/ resp'.op = "scan"
      \/ \E r \in BagToSet(reqs') : r.op = "scan" /\ Entered(r))
     => qr_tokens' = qr_tokens]_vars

\* a scan was rejected for want of a token and the registry is still empty
C16_Witness ==
  /\ resp.op = "scan" /\ resp.outcome = "NoTokenIssued"
  /\ DOMAIN qr_tokens = {}

\* C17: the scan of a logged-in employee is accepted if and only if its
\* date is today, a token is stored for that date and it is the token
\* presented: the check-in page is shown for the scans that passed this
\* test and for no other, and a scan that passes it is not rejected.
C17_AcceptedIff ==
  [][/\ \A i \in ScanInputs :
          (/\ i.sess.role = "employee" /\ i.datestr # NoStr
           /\ ScanBegin(i.sess, i.token, i.datestr))
          => ((reqs' # reqs) <=>
                (/\ i.datestr = IsoFormat(clock.day)
                 /\ i.datestr \in DOMAIN qr_tokens
                 /\ qr_tokens[i.datestr] = i.token))
     /\ \A r \in BagToSet(reqs') :
          (r.op = "scan" /\ Entered(r)) =>
             /\ r.sess.role = "employee"
             /\ r.datestr = IsoFormat(clock.day)
             /\ r.datestr \in DOMAIN qr_tokens
             /\ qr_tokens[r.datestr] = r.token
     /\ (resp'.op = "scan" /\ resp'.outcome = "Accepted") <=>
          \E r \in BagToSet(reqs) :
            r.op = "scan" /\ r.pc = "page" /\ CopiesIn(r, reqs') < CopiesIn(r, reqs)]_vars

\* the page is shown for today's stored token
C17_Witness ==
  /\ resp.op = "scan" /\ resp.outcome = "Accepted" /\ resp.date = clock.day
  /\ Lookup(qr_tokens, IsoFormat(resp.date)) = resp.token

\* C18: a rejected scan of a logged-in employee reports one cause and no
\* scan ends in an exception: a date other than today gives TokenExpired
\* whatever the token, today without a stored token gives NoTokenIssued,
\* today with another stored token gives TokenMismatch.
C18_RejectionCause ==
  [][/\ resp'.op = "scan" =>
          resp'.outcome \in {"InvalidLink", "LoginRequired", "AccessDenied",
                             "TokenExpired", "NoTokenIssued", "TokenMismatch",
                             "Accepted"}
     /\ \A i \in ScanInputs :
          (/\ i.sess.role = "employee" /\ i.datestr # NoStr
           /\ ScanBegin(i.sess, i.token, i.datestr))
          => /\ i.datestr # IsoFormat(clock.day) => resp'.outcome = "TokenExpired"
             /\ (i.datestr = IsoFormat(clock.day) /\ i.datestr \notin DOMAIN qr_tokens)
                  => resp'.outcome = "NoTokenIssued"
             /\ (/\ i.datestr = IsoFormat(clock.day) /\ i.datestr \in DOMAIN qr_tokens
                 /\ qr_tokens[i.datestr] # i.token)
                  => resp'.outcome = "TokenMismatch"]_vars

\* a scan with yesterday's date and the token still stored for yesterday
\* was answered TokenExpired
C18_Witness ==
  /\ resp.op = "scan" /\ resp.outcome = "TokenExpired" /\ resp.date # clock.day
  /\ Lookup(qr_tokens, IsoFormat(resp.date)) = resp.token

\* the seconds from one time to another
Seconds(from, to) == (to.day - from.day) * 86400 + to.secs - from.secs

\* C19: after a successful check-out the hours worked are the time from
\* check-in to check-out in hours, rounded to two decimals: in hundredths
\* of an hour, no more than half a hundredth (18 s) away from it, and 8.00
\* for eight hours; with a time missing calculate_hours_worked returns 0.
C19_HoursWorked ==
  /\ \A row \in attendance :
       (row.check_in_time # NoTime /\ row.check_out_time # NoTime) =>
          /\ row.notes.kind = "summary"
          /\ Seconds(row.check_in_time, row.check_out_time) >= 0
          /\ 36 * row.notes.hours - 18 <= Seconds(row.check_in_time, row.check_out_time)
          /\ Seconds(row.check_in_time, row.check_out_time) <= 36 * row.notes.hours + 18
          /\ Seconds(row.check_in_time, row.check_out_time) = 8 * 3600
               => row.notes.hours = 800
  /\ calculate_hours_worked(NoTime, clock) = 0
  /\ calculate_hours_worked(clock, NoTime) = 0
  /\ calculate_hours_worked(NoTime, NoTime) = 0

\* in at 09:15:00, out at 17:15:00: 8.00 hours
C19_Witness ==
  /\ resp.op = "checkout" /\ resp.outcome = "Success"
  /\ \E row \in attendance :
       /\ row.check_in_time.secs = 9 * 3600 + 15 * 60
       /\ row.check_out_time.secs = 17 * 3600 + 15 * 60
       /\ row.notes.hours = 800

\* C20: every attendance record with both times has its check_out_time at
\* or after its check_in_time.
C20_OutAfterIn ==
  \A row \in attendance :
    (row.check_in_time # NoTime /\ row.check_out_time # NoTime) =>
       Seconds(row.check_in_time, row.check_out_time) >= 0

\* C28: a check-in request that ends in a failure has changed no attendance
\* record, also when it had found a record without check_in_time and its
\* insert failed.
C28_FailureChangesNothing ==
  (resp.op = "submit" /\ resp.outcome # "Success") => ~resp.wrote

\* a repository call of a marking request commits in this step
MarkCommitted ==
  \E r \in InFlight :
    r.op = "mark" /\ r.pc = "commit" /\ CopiesIn(r, reqs') < CopiesIn(r, reqs)

\* C29: repository.mark_attendance leaves every stored record in the table
\* with its employee, date, check_in_time and check_out_time, and a record
\* it creates has neither timestamp.
C29_MarkingKeepsTimes ==
  [][MarkCommitted =>
       /\ \A row \in attendance : \E new \in attendance' :
            /\ new.attendance_id = row.attendance_id
            /\ new.employee_id = row.employee_id /\ new.date = row.date
            /\ new.check_in_time = row.check_in_time
            /\ new.check_out_time = row.check_out_time
       /\ \A new \in attendance' :
            \/ \E row \in attendance : row.attendance_id = new.attendance_id
            \/ new.check_in_time = NoTime /\ new.check_out_time = NoTime]_vars

\* a marking request has finished and a record that was checked in carries
\* the status only marking gives
C29_Witness ==
  /\ resp.op = "mark" /\ resp.outcome = "Marked"
  /\ \E row \in attendance : row.check_in_time # NoTime /\ row.status = "Absent"

\* a request of this handler and of a session with this role takes a step
Acts(op, role) ==
  \E r \in InFlight :
    r.op = op /\ r.sess.role = role /\ CopiesIn(r, reqs') < CopiesIn(r, reqs)

\* a token is stored in this step: a new key, or another value for a key
TokenCreated ==
  \E k \in DOMAIN qr_tokens' : k \notin DOMAIN qr_tokens \/ qr_tokens'[k] # qr_tokens[k]

\* a timestamp is written in this step: a record appears with one, or a
\* stored record has another
TimestampWritten ==
  \E new \in attendance' :
    IF \E row \in attendance : row.attendance_id = new.attendance_id
    THEN \E row \in attendance :
           /\ row.attendance_id = new.attendance_id
           /\ \/ row.check_in_time # new.check_in_time
              \/ row.check_out_time # new.check_out_time
    ELSE new.check_in_time # NoTime \/ new.check_out_time # NoTime

\* C30: a token is stored only by a step of the QR page requested with an
\* administrator's session; a timestamp is written, and a check-in or
\* check-out changes the attendance table, only by a step of a request with
\* an employee's session; a request of another role is never processed by
\* these handlers.
C30_RoleGating ==
  [][/\ TokenCreated => Acts("qr", "admin")
     /\ TimestampWritten => (Acts("submit", "employee") \/ Acts("checkout", "employee"))
     /\ attendance' # attendance =>
          (Acts("submit", "employee") \/ Acts("checkout", "employee")
             \/ Acts("mark", "admin"))
     /\ \A r \in BagToSet(reqs') :
          /\ r.op = "qr" => r.sess.role = "admin"
          /\ r.op \in {"submit", "checkout"} => r.sess.role = "employee"]_vars

\* a token is stored, an employee is checked in and out, and the last
\* request was one of a session the handler turns away
C30_Witness ==
  /\ DOMAIN qr_tokens # {}
  /\ \E row \in attendance : row.check_in_time # NoTime /\ row.check_out_time # NoTime
  /\ resp.outcome = "AccessDenied"

\* the handlers behind login_required or admin_required
Protected == {"submit", "checkout", "mark", "logout"}

\* the step leaves the registry, the database, the session and the requests
\* in processing as they are
NothingDone ==
  UNCHANGED <<qr_tokens, attendance, identity, session, tables, reqs>>

\* the user of the browser's session is stored and is an administrator
SessionUserIsAdmin ==
  \E u \in users : u.user_id = session.user_id /\ u.role = "admin"

\* C21: a request to a protected handler with a session without user_id is
\* answered with the redirect to the login page and does nothing; a request
\* to the administrator's handler with a session whose user is not stored
\* or is no administrator is turned away and does nothing; no request of
\* such a session is ever in processing in these handlers.
C21_NoHandlerWithoutSession ==
  [][/\ (session.user_id = 0 /\ resp'.op \in Protected) =>
          (resp'.outcome = "LoginRequired" /\ NothingDone)
     /\ (session.user_id # 0 /\ ~SessionUserIsAdmin /\ resp'.op = "mark") =>
          (resp'.outcome = "AdminRequired" /\ NothingDone)
     /\ \A r \in BagToSet(reqs') :
          /\ r.op \in Protected => r.sess.user_id # 0
          /\ r.op = "mark" =>
               \E u \in users : u.user_id = r.sess.user_id /\ u.role = "admin"]_vars

\* records are stored, the browser is logged out, and its request to a
\* protected handler was sent to the login page
C21_Witness ==
  /\ session.user_id = 0
  /\ resp.op \in Protected /\ resp.outcome = "LoginRequired"
  /\ \E row \in attendance : row.check_in_time # NoTime

\* the users the credentials of a login form are those of: the name as the
\* handler reads it, without the blanks around it
Matching(username, password) ==
  {u \in users : u.username = Strip(username)
                    /\ u.password_hash = generate_password_hash(password)}

\* C22: after a POST to /login the session holds a user_id exactly if the
\* submitted user name is a user's and the password is that user's; then
\* user_id, username and role in the session are that user's.  With wrong
\* or missing credentials the session holds no user_id, whoever was logged
\* in before.
C22_LoginIffCredentials ==
  [][resp'.op = "login" =>
       /\ session'.user_id # 0 <=> Matching(resp'.username, resp'.password) # {}
       /\ session'.user_id # 0 =>
            \E u \in Matching(resp'.username, resp'.password) :
              /\ session'.user_id = u.user_id
              /\ session'.username = u.username
              /\ session'.role = u.role]_vars

\* a logged-in browser has posted wrong credentials and is logged out
C22_Witness ==
  /\ resp.op = "login" /\ resp.outcome = "InvalidCredentials"
  /\ resp.sess.user_id # 0
  /\ session.user_id = 0

\* the session holds a pending check-in
HasPending ==
  session.pending_checkin_token # NoToken /\ session.pending_checkin_date # NoStr

\* C27: a scan without login leaves its token and date in the session; a
\* POST to /login keeps the pending token and date in the session, and
\* with valid credentials redirects to the check-in page of that token and
\* date; a successful check-in takes them out of the session.
C27_PendingSurvivesLogin ==
  [][/\ (resp'.op = "scan" /\ resp'.outcome = "LoginRequired") =>
          /\ session'.pending_checkin_token = resp'.token
          /\ session'.pending_checkin_date = resp'.datestr
          /\ resp'.token # NoToken /\ resp'.datestr # NoStr
     /\ (resp'.op = "login" /\ HasPending) =>
          /\ session'.pending_checkin_token = session.pending_checkin_token
          /\ session'.pending_checkin_date = session.pending_checkin_date
          /\ session'.user_id # 0 =>
               /\ resp'.outcome = "RedirectCheckin"
               /\ resp'.token = session.pending_checkin_token
               /\ resp'.datestr = session.pending_checkin_date
     /\ (resp'.op = "submit" /\ resp'.outcome = "Success") =>
          /\ session'.pending_checkin_token = NoToken
          /\ session'.pending_checkin_date = NoStr]_vars

\* a browser that was not logged in has logged in and is sent to the
\* check-in page of the link it had scanned, one with another token than
\* the stored one
C27_Witness ==
  /\ resp.op = "login" /\ resp.outcome = "RedirectCheckin"
  /\ resp.sess.user_id = 0
  /\ session.user_id # 0
  /\ session.pending_checkin_token = 2
  /\ resp.token = 2


\* C23: usernames are unique in every reachable state; create_user with a
\* username that exists answers 'Username already exists', adds no user
\* and leaves the password hash and the role of the existing user as
\* they were.
C23_UsernamesUnique ==
  [][/\ \A a, b \in users' : a.username = b.username => a = b
     /\ (/\ resp'.op = "create_user"
         /\ \E u \in users : u.username = resp'.username)
          => /\ resp'.outcome = "UsernameExists"
             /\ users' = users]_vars

\* a user was created, and a second user of an existing name was refused
C23_Witness ==
  /\ resp.op = "create_user"
  /\ resp.outcome = "UsernameExists"
  /\ Cardinality(users) > Cardinality(UserTable)
  /\ \E u \in users : u.username = resp.username /\ u.role = "admin"

\* C24: after delete_employee(id, soft_delete=True) on an existing
\* employee, get_employee_by_id still returns the employee, with status
\* 'inactive' and every other field as before; the attendance records
\* are unchanged, and get_all_employees() no longer lists the employee.
C24_SoftDeleteKeepsRow ==
  [][(/\ resp'.op = "delete_employee"
      /\ resp'.flag
      /\ \E e \in employees : e.employee_id = resp'.key)
       => /\ resp'.outcome = "Inactive"
          /\ \E e \in employees :
                /\ e.employee_id = resp'.key
                /\ get_employee_by_id(employees', resp'.key) =
                     [e EXCEPT !.status = "inactive"]
                /\ employees' \ {get_employee_by_id(employees', resp'.key)} =
                     employees \ {e}
          /\ attendance' = attendance
          /\ \A e \in get_all_employees(employees', FALSE) :
                e.employee_id # resp'.key]_vars

\* an active employee with an attendance record was soft deleted
C24_Witness ==
  /\ resp.op = "delete_employee"
  /\ resp.flag
  /\ resp.outcome = "Inactive"
  /\ \E e \in employees : e.employee_id = resp.key /\ e.status = "inactive"
  /\ \E row \in attendance : row.employee_id = resp.key
  /\ \E e \in employees : e.status = "active"

\* C25: create_leave_request stores a Pending request without reviewed_at;
\* update_leave_status with 'Approved' or 'Rejected' sets that status and
\* reviewed_at, with any other value it answers 'Invalid status' and
\* leaves the request as it was; after each of these calls a request is
\* Pending exactly when reviewed_at is unset, and a reviewed request does
\* not return to Pending.
C25_LeaveLifecycle ==
  [][/\ (resp'.op = "create_leave_request" /\ resp'.outcome = "Created")
          => \E l \in leave_requests' \ leave_requests :
               /\ l.leave_id = resp'.key
               /\ l.status = "Pending"
               /\ l.reviewed_at = NoTime
     /\ (/\ resp'.op = "update_leave_status"
         /\ \E l \in leave_requests : l.leave_id = resp'.key)
          => IF resp'.status \in {"Approved", "Rejected"}
             THEN /\ resp'.outcome = "Updated"
                  /\ \E l \in leave_requests' :
                        /\ l.leave_id = resp'.key
                        /\ l.status = resp'.status
                        /\ l.reviewed_at # NoTime
             ELSE /\ resp'.outcome = "InvalidStatus"
                  /\ leave_requests' = leave_requests
     /\ resp'.op \in {"create_leave_request", "update_leave_status"}
          => /\ \A l \in leave_requests' :
                   (l.status = "Pending") <=> (l.reviewed_at = NoTime)
             /\ \A l \in leave_requests, m \in leave_requests' :
                   (l.leave_id = m.leave_id /\ l.status # "Pending")
                     => m.status # "Pending"]_vars

\* a rejected request was asked back to Pending and stayed rejected
C25_Witness ==
  /\ resp.op = "update_leave_status"
  /\ resp.status = "Pending"
  /\ resp.outcome = "InvalidStatus"
  /\ \E l \in leave_requests :
        /\ l.leave_id = resp.key
        /\ l.status = "Rejected"
        /\ l.reviewed_at # NoTime

\* C26: delete_department does not remove a department that has an
\* employee assigned, active or inactive: it answers 'Cannot delete
\* department with assigned employees' and changes nothing; a department
\* without employees is deleted.
C26_DepartmentWithEmployeesKept ==
  [][/\ \A d \in departments \ departments' :
          \A e \in employees : e.department_id # d.department_id
     /\ (/\ resp'.op = "delete_department"
         /\ \E d \in departments : d.department_id = resp'.key)
          => IF \E e \in employees : e.department_id = resp'.key
             THEN /\ resp'.outcome = "CannotDelete"
                  /\ departments' = departments
                  /\ employees' = employees
             ELSE /\ resp'.outcome = "Deleted"
                  /\ departments' =
                       {d \in departments : d.department_id # resp'.key}]_vars

\* the department of an inactive employee was kept, another one is gone
C26_Witness ==
  /\ resp.op = "delete_department"
  /\ resp.outcome = "CannotDelete"
  /\ \E e \in employees : e.department_id = resp.key
  /\ \A e \in employees : e.department_id = resp.key => e.status = "inactive"
  /\ \E d \in departments : d.department_id = resp.key
  /\ Cardinality(departments) < Cardinality(DepartmentTable)

====
